---- MODULE Spec2Model ----
(***************************************************************************)
(* Olive render backend: RenderWorker's node-graph evaluation against the  *)
(* shared DecoderCache (src/app/render/backend/renderworker.cpp), the      *)
(* still-image decoder (src/app/codec/oiio/oiiodecoder.cpp) and the        *)
(* project file manager's Start/Cancel slots                               *)
(* (src/app/project/projectfilemanagerbase.h).                             *)
(***************************************************************************)
EXTENDS Integers, Sequences, FiniteSets, TLC

(***************************************************************************)
(* Bounds of the model.                                                    *)
(***************************************************************************)
\* Render() calls issued over all workers.
MaxRenders == 2
\* Width and height of the images an OIIODecoder opens: 1..MaxDim.
MaxDim == 3
\* Dividers passed to RetrieveVideo: 1..MaxDivider.
MaxDivider == 3
\* Calls made on the OIIODecoder.
MaxDecoderCalls == 4
\* Slot invocations posted to the ProjectFileManagerBase's thread, and Start() calls.
MaxPosted == 3
\* ProgressChanged steps of one Start().
MaxProgress == 2
\* Init() and Close() calls made on one RenderWorker.
MaxLifeCalls == 5

None == "none"

Workers == {"w1", "w2"}

Streams == {"S1", "S2"}

(***************************************************************************)
(* The graph under evaluation (read-only during evaluation).               *)
(*   A : a_in (texture, connected to B, shifted by one time unit),         *)
(*       a_out (an output parameter), a_foot (footage, stream S1)          *)
(*   B : b_key (float, keyframed literal), b_foot (footage, stream S2)     *)
(*   C : c_foot (footage input holding no stream)                          *)
(*   D : d_one and d_two (texture, both connected to E, d_two shifted by   *)
(*       one time unit), d_trk (texture, connected to the track T)         *)
(*   E : e_key (float, keyframed literal)                                  *)
(*   T : a track node                                                      *)
(***************************************************************************)
Nodes == {"A", "B", "C", "D", "E", "T"}

Params ==
  [n \in Nodes |->
     CASE n = "A" -> <<"a_in", "a_out", "a_foot">>
       [] n = "B" -> <<"b_key", "b_foot">>
       [] n = "C" -> <<"c_foot">>
       [] n = "D" -> <<"d_one", "d_two", "d_trk">>
       [] n = "E" -> <<"e_key">>
       [] n = "T" -> <<>>]

\* (variant: no node is taken for a track)
IsTrack_Never(node) == FALSE

\* Node::IsTrack()
IsTrack(node) == node = "T"

AllParams == {"a_in", "a_out", "a_foot", "b_key", "b_foot", "c_foot",
              "d_one", "d_two", "d_trk", "e_key"}

\* NodeParam::type(): kInput or kOutput
ParamType == [p \in AllParams |-> IF p = "a_out" THEN "kOutput" ELSE "kInput"]

\* NodeInput::data_type()
DataType ==
  [p \in AllParams |->
     CASE p \in {"a_foot", "b_foot", "c_foot"} -> "kFootage"
       [] p \in {"b_key", "e_key"} -> "kFloat"
       [] OTHER -> "kTexture"]

\* NodeInput::get_connected_node(), None when the input is not connected
Connected ==
  [p \in AllParams |->
     CASE p = "a_in" -> "B"
       [] p \in {"d_one", "d_two"} -> "E"
       [] p = "d_trk" -> "T"
       [] OTHER -> None]

IsConnected(input) == Connected[input] # None

\* The stream stored as the literal value of a footage input
FootageStream ==
  [p \in AllParams |->
     CASE p = "a_foot" -> "S1"
       [] p = "b_foot" -> "S2"
       [] OTHER -> None]

\* Time shift a node applies to the range of one of its inputs
TimeShift == [p \in AllParams |-> IF p \in {"a_in", "d_two"} THEN 1 ELSE 0]

\* Nodes whose Value() pushes a value of their own whatever the database holds
Generators == {"A"}

InputsOf(n) == {Params[n][k] : k \in {j \in 1..Len(Params[n]) : ParamType[Params[n][j]] = "kInput"}}

\* The ranges handed to Render()
Ranges == {<<0, 1>>}

(***************************************************************************)
(* Collaborators of the worker.                                            *)
(***************************************************************************)
\* NodeInput::get_value_at_time(t): the keyed literal of the input at time t;
\* a footage input's literal is its stream
get_value_at_time(input, t) ==
  IF DataType[input] = "kFootage" THEN FootageStream[input] ELSE <<input, t>>

\* Node::InputTimeAdjustment(input, range)
InputTimeAdjustment(node, input, range) ==
  <<range[1] + TimeShift[input], range[2] + TimeShift[input]>>

EmptyTable == <<>>

EmptyDatabase == [i \in {} |-> EmptyTable]

\* NodeValueDatabase::Insert(input, table): one table per input, replacing
DatabaseInsert(db, input, table) ==
  [i \in (DOMAIN db) \cup {input} |-> IF i = input THEN table ELSE db[i]]

RECURSIVE ConcatTables(_, _, _)
ConcatTables(node, db, k) ==
  IF k > Len(Params[node]) THEN EmptyTable
  ELSE (IF Params[node][k] \in DOMAIN db THEN db[Params[node][k]] ELSE EmptyTable)
         \o ConcatTables(node, db, k + 1)

\* Node::Value(database): a pure function of the database
NodeValue(node, db) ==
  (IF node \in Generators THEN <<<<"kTexture", <<"gen", node>>>>>> ELSE EmptyTable)
    \o ConcatTables(node, db, 1)

VARIABLES
  stack,      \* per worker: the ProcessNode/GenerateDatabase activations, innermost last
  path,       \* per worker: path_ (node, range); the node is None before the first Render
  cancelled,  \* per worker: the cancellation flag IsCancelled() reads
  completed,  \* per worker: the CompletedCache emissions of its current Render call
  obs,        \* per worker: history of the current evaluation
  cache,      \* DecoderCache: stream -> decoder instance (0: no entry)
  lockOwner,  \* holder of DecoderCache's lock, or None
  created,    \* per stream: Decoder instances created (CreateFromID); the k-th is instance k
  opened,     \* per stream: Decoder instances whose Open() returned true
  adds,       \* per stream: DecoderCache::Add calls
  renders,    \* Render() calls issued so far
  dec,        \* OIIODecoder under test: its fields
  decRet,     \* OIIODecoder under test: the last call and what it returned
  pfm,        \* ProjectFileManagerBase: thread, event queue, cancelled_
  life        \* one RenderWorker's started_ and the Init()/Close() calls made on it

vars == <<stack, path, cancelled, completed, obs, cache, lockOwner, created, opened, adds,
          renders, dec, decRet, pfm, life>>

workerVars == <<stack, path, cancelled, completed, obs, cache, lockOwner, created,
                opened, adds, renders>>

decoderVars == <<dec, decRet>>

pfmVars == <<pfm>>

lifeVars == <<life>>

(***************************************************************************)
(* RenderWorker                                                            *)
(***************************************************************************)
RetrieveStates == {"kReady", "kNotReady", "kFailedToOpen"}

\* One activation of ProcessNode with the locals of its GenerateDatabase loop.
\* io, notes, pollFlag, failed and polls record what the activation did
\* (history); polls counts its IsCancelled() polls.
NewFrame(node, range) ==
  [node |-> node, range |-> range, idx |-> 1, db |-> EmptyDatabase, pc |-> "poll",
   input |-> None, itime |-> <<0, 0>>, table |-> EmptyTable, decoder |-> 0,
   openOk |-> FALSE, state |-> None, io |-> {}, notes |-> <<>>,
   pollFlag |-> FALSE, cancelObs |-> FALSE, failed |-> {}, polls |-> 0]

\* History of the plain-node steps of the activation that returned last: the
\* arguments of its Value() calls and of its RunNodeAccelerated calls, in call
\* order, and the table it returned.
NoEval ==
  [seen |-> FALSE, node |-> None, range |-> <<0, 0>>, values |-> <<>>, hooks |-> <<>>,
   out |-> EmptyTable]

Busy(w) == stack[w] # <<>>

Top(w) == stack[w][Len(stack[w])]

SetTop(w, f) == [stack EXCEPT ![w] = [@ EXCEPT ![Len(@)] = f]]

At(w, pc) == Busy(w) /\ Top(w).pc = pc

\* (variant: the parameters are visited last to first)
ParamAt_Reversed(node, k) == Params[node][Len(Params[node]) + 1 - k]

\* The k-th parameter GenerateDatabase's foreach visits: declaration order
ParamAt(node, k) == Params[node][k]

\* (variant: the connected node is evaluated over the unadjusted range)
ConnectedDependency_Unadjusted(input, input_time) ==
  <<Connected[input], <<input_time[1] - TimeShift[input], input_time[2] - TimeShift[input]>>>>

\* ProcessInput, connected branch: NodeDependency(connected node, adjusted range)
ConnectedDependency(input, input_time) == <<Connected[input], input_time>>

\* (variant: Render does not store the path)
SetPath_Skipped(w, p) == path

\* Render: path_ = path
SetPath(w, p) == [path EXCEPT ![w] = p]

\* RenderWorker::CurrentPath()
CurrentPath(w) == path[w]

\* (variant: the lock stays taken when Open() failed)
LockAfterReturn_KeptOnFailure(w, openOk) == IF openOk THEN None ELSE w

\* ResolveDecoderFromInput returns: ~QMutexLocker releases the lock of the cache
LockAfterReturn(w, openOk) == None

\* RenderWorker::IsCancelled()
IsCancelled(w) == cancelled[w]

\* (variant: the loop does not poll the flag)
CancelObserved_NoPoll(w) == FALSE

\* GenerateDatabase's poll at the head of each loop iteration
CancelObserved(w) == IsCancelled(w)

\* RenderWorker::ResolveStreamFromInput
ResolveStreamFromInput(input) == get_value_at_time(input, 0)

\* (variant: the literal is sampled at range.out())
ProcessInputUnconnected_AtOut(input, range) ==
  <<<<DataType[input], get_value_at_time(input, range[2])>>>>

\* ProcessInput, unconnected branch: the literal at range.in() in a fresh table
ProcessInputUnconnected(input, range) ==
  <<<<DataType[input], get_value_at_time(input, range[1])>>>>

\* RenderBlock(track, range): the block-splitting evaluation of a track node
RenderBlock(node, range) == <<<<"kTexture", <<"block", node, range>>>>>>

\* FrameToValue(stream, frame, &table): push the value derived from the frame
FrameToValue(stream, itime, table) == Append(table, <<"kTexture", <<"frame", stream, itime>>>>)

\* (variant: the hook empties the output table)
RunNodeAccelerated_Clear(node, range, db, table) == EmptyTable

\* RunNodeAccelerated of RenderWorker: leaves the output table as it is
RunNodeAccelerated(node, range, db, table) == table

\* ProcessNode on a plain node, after GenerateDatabase: Value(database), then
\* RunNodeAccelerated(node, range, database, &table), return table
PlainNodeSteps(f) ==
  LET value == NodeValue(f.node, f.db)
  IN [seen |-> TRUE, node |-> f.node, range |-> f.range,
      values |-> <<<<f.node, f.db>>>>,
      hooks |-> <<<<f.node, f.range, f.db, value>>>>,
      out |-> RunNodeAccelerated(f.node, f.range, f.db, value)]

\* (variant: the resolution does not take the lock)
CanLock_NoMutex(w) == TRUE

\* The mutex of DecoderCache as QMutexLocker takes it
CanLock(w) == lockOwner = None

\* (variant: a stream whose decoder failed to open is not tried again)
CacheMiss_RememberFailed(decoder, stream) ==
  decoder = 0 /\ stream # None /\ created[stream] = opened[stream]

\* (variant: the cached decoder is not looked at)
CacheMiss_IgnoreCached(decoder, stream) == stream # None

\* ResolveDecoderFromInput: whether a decoder has to be created
CacheMiss(decoder, stream) == decoder = 0 /\ stream # None

\* (variant: the decoder is added whatever Open() returned)
ShouldAdd_Unchecked(openOk) == TRUE

\* ResolveDecoderFromInput: whether the new decoder goes into the cache
ShouldAdd(openOk) == openOk

\* (variant: the signal carries the range of the node being evaluated)
ReportUnavailableFootage_NodeRange(w, stream, state, stream_time) ==
  [stream |-> stream, state |-> state, range |-> Top(w).range, time |-> stream_time]

\* RenderWorker::ReportUnavailableFootage: the FootageUnavailable signal
ReportUnavailableFootage(w, stream, state, stream_time) ==
  [stream |-> stream, state |-> state, range |-> path[w][2], time |-> stream_time]

\* GenerateDatabase after ProcessInput returned `table` for f.input: the footage
\* exception applies to a footage input that holds a stream
AfterProcessInput(f, table) ==
  [f EXCEPT !.table = table,
            !.pc = IF DataType[f.input] = "kFootage" /\ ResolveStreamFromInput(f.input) # None
                   THEN "resolve" ELSE "insert"]

\* (variant: a footage input without a decoder is left out of the database)
InsertedDatabase_DecoderOnly(f) ==
  IF DataType[f.input] = "kFootage" /\ f.decoder = 0
  THEN f.db ELSE DatabaseInsert(f.db, f.input, f.table)

\* database.Insert(input, table) at the end of the iteration
InsertedDatabase(f) == DatabaseInsert(f.db, f.input, f.table)

\* Render(path, job_time): path_ = path, then RenderInternal -> ProcessNode(path)
Render(w, node, range) ==
  /\ ~Busy(w)
  /\ renders < MaxRenders
  /\ renders' = renders + 1
  /\ path' = SetPath(w, <<node, range>>)
  /\ obs' = [obs EXCEPT ![w] = [sawCancel |-> FALSE, valueOnCancelled |-> FALSE,
                                job_time |-> renders + 1, plain |-> {},
                                eval |-> NoEval]]
  /\ stack' = [stack EXCEPT ![w] = <<NewFrame(node, range)>>]
  /\ completed' = [completed EXCEPT ![w] = <<>>]
  /\ UNCHANGED <<cancelled, cache, lockOwner, created, opened, adds, decoderVars, pfmVars, lifeVars>>

\* ProcessNode on a track node: RenderBlock, nothing else
PN_Track(w) ==
  /\ At(w, "poll")
  /\ Top(w).idx = 1
  /\ IsTrack(Top(w).node)
  /\ Len(stack[w]) = 1
  /\ completed' = [completed EXCEPT ![w] =
       Append(@, [path |-> <<Top(w).node, Top(w).range>>,
                  table |-> RenderBlock(Top(w).node, Top(w).range),
                  job_time |-> obs[w].job_time])]
  /\ stack' = [stack EXCEPT ![w] = <<>>]
  /\ UNCHANGED <<path, cancelled, obs, cache, lockOwner, created, opened, adds, renders, decoderVars, pfmVars, lifeVars>>

\* GenerateDatabase: the loop over the parameters is exhausted
GD_Done(w) ==
  /\ At(w, "poll")
  /\ ~IsTrack(Top(w).node)
  /\ Top(w).idx > Len(Params[Top(w).node])
  /\ stack' = SetTop(w, [Top(w) EXCEPT !.pc = "value"])
  /\ obs' = [obs EXCEPT ![w].plain = @ \cup {"GenerateDatabase"}]
  /\ UNCHANGED <<path, cancelled, completed, cache, lockOwner, created, opened, adds, renders, decoderVars, pfmVars, lifeVars>>

\* GenerateDatabase: IsCancelled() at the head of an iteration, return NodeValueDatabase()
GD_Cancelled(w) ==
  /\ At(w, "poll")
  /\ ~IsTrack(Top(w).node)
  /\ Top(w).idx <= Len(Params[Top(w).node])
  /\ CancelObserved(w)
  /\ stack' = SetTop(w, [Top(w) EXCEPT !.db = EmptyDatabase, !.pc = "value",
                                       !.cancelObs = TRUE, !.polls = @ + 1])
  /\ obs' = [obs EXCEPT ![w].sawCancel = TRUE, ![w].plain = @ \cup {"GenerateDatabase"}]
  /\ UNCHANGED <<path, cancelled, completed, cache, lockOwner, created, opened, adds, renders, decoderVars, pfmVars, lifeVars>>

\* GenerateDatabase: a parameter that is not an input
GD_SkipParam(w) ==
  /\ At(w, "poll")
  /\ ~IsTrack(Top(w).node)
  /\ Top(w).idx <= Len(Params[Top(w).node])
  /\ ~CancelObserved(w)
  /\ ParamType[ParamAt(Top(w).node, Top(w).idx)] # "kInput"
  /\ stack' = SetTop(w, [Top(w) EXCEPT !.idx = @ + 1, !.polls = @ + 1])
  /\ obs' = [obs EXCEPT ![w].plain = @ \cup {"GenerateDatabase"}]
  /\ UNCHANGED <<path, cancelled, completed, cache, lockOwner, created, opened, adds, renders, decoderVars, pfmVars, lifeVars>>

\* GenerateDatabase: an input; InputTimeAdjustment, then ProcessInput
GD_Input(w) ==
  /\ At(w, "poll")
  /\ ~IsTrack(Top(w).node)
  /\ Top(w).idx <= Len(Params[Top(w).node])
  /\ ~CancelObserved(w)
  /\ ParamType[ParamAt(Top(w).node, Top(w).idx)] = "kInput"
  /\ LET f == Top(w)
         input == ParamAt(f.node, f.idx)
         input_time == InputTimeAdjustment(f.node, input, f.range)
         g == [f EXCEPT !.input = input, !.itime = input_time,
                        !.pollFlag = cancelled[w], !.polls = @ + 1]
         dep == ConnectedDependency(input, input_time)
     IN IF IsConnected(input)
        THEN IF IsTrack(dep[1])
             THEN stack' = SetTop(w, AfterProcessInput(g, RenderBlock(dep[1], dep[2])))
             ELSE stack' = [stack EXCEPT ![w] =
                    Append([@ EXCEPT ![Len(@)] = [g EXCEPT !.pc = "await"]],
                           NewFrame(dep[1], dep[2]))]
        ELSE stack' = SetTop(w, AfterProcessInput(g, ProcessInputUnconnected(input, input_time)))
  /\ obs' = [obs EXCEPT ![w].plain = @ \cup {"GenerateDatabase"}]
  /\ UNCHANGED <<path, cancelled, completed, cache, lockOwner, created, opened, adds, renders, decoderVars, pfmVars, lifeVars>>

\* ResolveDecoderFromInput: QMutexLocker, decoder_cache_->Get(stream); a hit returns
RD_Get(w) ==
  /\ At(w, "resolve")
  /\ CanLock(w)
  /\ LET f == Top(w)
         stream == ResolveStreamFromInput(f.input)
         decoder == cache[stream]
     IN IF CacheMiss(decoder, stream)
        THEN /\ lockOwner' = w
             /\ stack' = SetTop(w, [f EXCEPT !.pc = "open"])
        ELSE /\ lockOwner' = lockOwner
             /\ stack' = SetTop(w, [f EXCEPT !.decoder = decoder, !.pc = "state"])
  /\ UNCHANGED <<path, cancelled, completed, obs, cache, created, opened, adds, renders,
                 decoderVars, pfmVars, lifeVars>>

\* ResolveDecoderFromInput: Decoder::CreateFromID, set_stream, Open()
RD_Open(w) ==
  /\ At(w, "open")
  /\ \E ok \in BOOLEAN :
       LET f == Top(w)
           stream == ResolveStreamFromInput(f.input)
       IN /\ created' = [created EXCEPT ![stream] = @ + 1]
          /\ opened' = [opened EXCEPT ![stream] = IF ok THEN @ + 1 ELSE @]
          /\ stack' = SetTop(w, [f EXCEPT !.decoder = created[stream] + 1, !.openOk = ok,
                                          !.io = @ \cup {"CreateFromID", "Open"},
                                          !.pc = "opened"])
  /\ UNCHANGED <<path, cancelled, completed, obs, cache, lockOwner, adds, renders, decoderVars, pfmVars, lifeVars>>

\* ResolveDecoderFromInput: Add on success, discard and warn on failure; return
RD_Return(w) ==
  /\ At(w, "opened")
  /\ LET f == Top(w)
         stream == ResolveStreamFromInput(f.input)
     IN IF ShouldAdd(f.openOk)
        THEN /\ cache' = [cache EXCEPT ![stream] = f.decoder]
             /\ adds' = [adds EXCEPT ![stream] = @ + 1]
             /\ stack' = SetTop(w, [f EXCEPT !.pc = "state"])
        ELSE /\ UNCHANGED <<cache, adds>>
             /\ stack' = SetTop(w, [f EXCEPT !.decoder = 0, !.failed = @ \cup {f.input},
                                             !.pc = "insert"])
  /\ lockOwner' = LockAfterReturn(w, Top(w).openOk)
  /\ UNCHANGED <<path, cancelled, completed, obs, created, opened, renders, decoderVars, pfmVars, lifeVars>>

\* GenerateDatabase: decoder->GetRetrieveState(input_time.out()); not ready is reported
GD_GetState(w) ==
  /\ At(w, "state")
  /\ \E state \in RetrieveStates :
       LET f == Top(w)
           stream == ResolveStreamFromInput(f.input)
           g == [f EXCEPT !.state = state, !.io = @ \cup {"GetRetrieveState"}]
       IN IF state = "kReady"
          THEN stack' = SetTop(w, [g EXCEPT !.pc = "retrieve"])
          ELSE stack' = SetTop(w, [g EXCEPT
                 !.notes = Append(@, ReportUnavailableFootage(w, stream, state, f.itime[2])),
                 !.pc = "insert"])
  /\ UNCHANGED <<path, cancelled, completed, obs, cache, lockOwner, created, opened, adds, renders, decoderVars, pfmVars, lifeVars>>

\* GenerateDatabase: RetrieveFromDecoder, and FrameToValue when it gave a frame
GD_Retrieve(w) ==
  /\ At(w, "retrieve")
  /\ \E frame \in BOOLEAN :
       LET f == Top(w)
           stream == ResolveStreamFromInput(f.input)
       IN stack' = SetTop(w, [f EXCEPT
            !.io = @ \cup {"RetrieveVideo"},
            !.table = IF frame THEN FrameToValue(stream, f.itime, @) ELSE @,
            !.pc = "insert"])
  /\ UNCHANGED <<path, cancelled, completed, obs, cache, lockOwner, created, opened, adds, renders, decoderVars, pfmVars, lifeVars>>

\* GenerateDatabase: database.Insert(input, table); next parameter
GD_Insert(w) ==
  /\ At(w, "insert")
  /\ LET f == Top(w)
     IN stack' = SetTop(w, [NewFrame(f.node, f.range) EXCEPT
          !.idx = f.idx + 1, !.db = InsertedDatabase(f), !.failed = f.failed,
          !.polls = f.polls])
  /\ UNCHANGED <<path, cancelled, completed, obs, cache, lockOwner, created, opened, adds, renders, decoderVars, pfmVars, lifeVars>>

\* ProcessNode: Value(database), RunNodeAccelerated, return to the ProcessInput
\* of the activation below
PN_Return(w) ==
  /\ At(w, "value")
  /\ Len(stack[w]) > 1
  /\ LET f == Top(w)
         e == PlainNodeSteps(f)
         below == stack[w][Len(stack[w]) - 1]
     IN /\ stack' = [stack EXCEPT ![w] =
             [SubSeq(@, 1, Len(@) - 1) EXCEPT ![Len(@) - 1] = AfterProcessInput(below, e.out)]]
        /\ obs' = [obs EXCEPT ![w].valueOnCancelled = @ \/ f.cancelObs,
                              ![w].plain = @ \cup {"Value", "RunNodeAccelerated"},
                              ![w].eval = e]
  /\ UNCHANGED <<path, cancelled, completed, cache, lockOwner, created, opened, adds, renders, decoderVars, pfmVars, lifeVars>>

\* ProcessNode of the descriptor passed to Render returns: emit
\* CompletedCache(path, table, job_time)
PN_Complete(w) ==
  /\ At(w, "value")
  /\ Len(stack[w]) = 1
  /\ LET f == Top(w)
         e == PlainNodeSteps(f)
     IN /\ completed' = [completed EXCEPT ![w] =
             Append(@, [path |-> <<f.node, f.range>>, table |-> e.out,
                        job_time |-> obs[w].job_time])]
        /\ obs' = [obs EXCEPT ![w].valueOnCancelled = @ \/ f.cancelObs,
                              ![w].plain = @ \cup {"Value", "RunNodeAccelerated"},
                              ![w].eval = e]
  /\ stack' = [stack EXCEPT ![w] = <<>>]
  /\ UNCHANGED <<path, cancelled, cache, lockOwner, created, opened, adds, renders, decoderVars, pfmVars, lifeVars>>

\* The owner of the cancellation flag sets it during an evaluation
SetCancel(w) ==
  /\ Busy(w)
  /\ ~cancelled[w]
  /\ cancelled' = [cancelled EXCEPT ![w] = TRUE]
  /\ UNCHANGED <<stack, path, completed, obs, cache, lockOwner, created, opened, adds, renders, decoderVars, pfmVars, lifeVars>>

\* ... and clears it between evaluations
ClearCancel(w) ==
  /\ ~Busy(w)
  /\ cancelled[w]
  /\ cancelled' = [cancelled EXCEPT ![w] = FALSE]
  /\ UNCHANGED <<stack, path, completed, obs, cache, lockOwner, created, opened, adds, renders, decoderVars, pfmVars, lifeVars>>

(***************************************************************************)
(* OIIODecoder                                                             *)
(***************************************************************************)
\* After OIIODecoder(): image_ and buffer_ null (FALSE: null, TRUE: held), the
\* decoder not open. live and calls are history: a successful Open() not
\* followed by Close(), and the number of calls made. decRet.held records
\* whether the decoder held both its image handle and its pixel buffer when the
\* call was made.
DecInit ==
  [open_ |-> FALSE, image_ |-> FALSE, buffer_ |-> FALSE, width_ |-> 0, height_ |-> 0,
   live |-> FALSE, calls |-> 0]

DecRetInit == [op |-> None, kind |-> None, live |-> FALSE, held |-> FALSE, divider |-> 0,
               native |-> <<0, 0>>, size |-> <<0, 0>>]

DecHeld == dec.image_ /\ dec.buffer_

Dims == 1..MaxDim

DecAlive == decRet.kind # "crash" /\ dec.calls < MaxDecoderCalls

\* int / int of C++ on operands that are not negative
IntDiv(a, b) == a \div b

\* OIIODecoder::Open(): ImageInput::open fails ("missing"), the pixel format is
\* not handled ("unsupported"), or the image is read into a new buffer
DecOpen ==
  /\ DecAlive
  /\ \E outcome \in {"missing", "unsupported", "ok"}, width \in Dims, height \in Dims :
       /\ dec' = CASE outcome = "missing" ->
                      [dec EXCEPT !.image_ = FALSE, !.calls = @ + 1]
                   [] outcome = "unsupported" ->
                      [dec EXCEPT !.image_ = TRUE, !.width_ = width, !.height_ = height,
                                  !.calls = @ + 1]
                   [] OTHER ->
                      [dec EXCEPT !.image_ = TRUE, !.width_ = width, !.height_ = height,
                                  !.buffer_ = TRUE, !.open_ = TRUE, !.live = TRUE,
                                  !.calls = @ + 1]
       /\ decRet' = [DecRetInit EXCEPT !.op = "Open",
                                       !.kind = IF outcome = "ok" THEN "true" ELSE "false",
                                       !.live = dec.live, !.held = DecHeld]
  /\ UNCHANGED <<workerVars, pfmVars, lifeVars>>

\* OIIODecoder::GetRetrieveState(time)
DecGetRetrieveState ==
  /\ DecAlive
  /\ dec' = [dec EXCEPT !.calls = @ + 1]
  /\ decRet' = [DecRetInit EXCEPT !.op = "GetRetrieveState",
                                  !.kind = IF ~dec.open_ THEN "kFailedToOpen" ELSE "kReady",
                                  !.live = dec.live, !.held = DecHeld]
  /\ UNCHANGED <<workerVars, pfmVars, lifeVars>>

\* OIIODecoder::RetrieveVideo(timecode, divider). With buffer_ null,
\* buffer_->spec() is undefined behaviour: the call crashes or returns the frame.
DecRetrieveVideo ==
  /\ DecAlive
  /\ \E divider \in 1..MaxDivider :
       \E kind \in IF ~dec.open_ THEN {"null"}
                   ELSE IF dec.buffer_ THEN {"frame"} ELSE {"crash", "frame"} :
         decRet' = [op |-> "RetrieveVideo", kind |-> kind, live |-> dec.live, held |-> DecHeld,
                    divider |-> divider, native |-> <<dec.width_, dec.height_>>,
                    size |-> IF kind = "frame"
                             THEN <<IntDiv(dec.width_, divider), IntDiv(dec.height_, divider)>>
                             ELSE <<0, 0>>]
  /\ dec' = [dec EXCEPT !.calls = @ + 1]
  /\ UNCHANGED <<workerVars, pfmVars, lifeVars>>

\* OIIODecoder::Close(): the image handle and the buffer are released
DecClose ==
  /\ DecAlive
  /\ dec' = [dec EXCEPT !.image_ = FALSE, !.buffer_ = FALSE, !.live = FALSE, !.calls = @ + 1]
  /\ decRet' = [DecRetInit EXCEPT !.op = "Close", !.live = dec.live, !.held = DecHeld]
  /\ UNCHANGED <<workerVars, pfmVars, lifeVars>>

(***************************************************************************)
(* ProjectFileManagerBase                                                  *)
(***************************************************************************)
\* running: Start() is executing on the object's thread; queue: the slot
\* invocations posted to that thread; begun, done: Start() calls begun and
\* completed. lastQueued and lastDirect record the last Cancel delivered each
\* way (history): the Start() running when it was requested (0: none) and how
\* the thread stood when the slot ran.
PfmInit ==
  [running |-> FALSE, queue |-> <<>>, cancelled_ |-> 0, progress |-> 0,
   begun |-> 0, done |-> 0, posted |-> 0,
   lastQueued |-> [seen |-> FALSE, during |-> 0, running |-> FALSE, done |-> 0],
   lastDirect |-> [seen |-> FALSE, during |-> 0, progress |-> 0]]

PfmCurrent == IF pfm.running THEN pfm.begun ELSE 0

\* (variant: posted invocations are delivered while Start() is executing)
PfmCanDeliver_Reentrant == pfm.queue # <<>>

\* The object's thread delivers a posted invocation when it is back in its event loop
PfmCanDeliver == pfm.queue # <<>> /\ ~pfm.running

\* ProjectFileManagerBase::Cancel(): set cancelled_
PfmCancelBody(p) == [p EXCEPT !.cancelled_ = 1]

\* Start() or Cancel() is invoked through a queued connection
PfmPost ==
  /\ pfm.posted < MaxPosted
  /\ \E slot \in {"Start", "Cancel"} :
       pfm' = [pfm EXCEPT !.queue = Append(@, [slot |-> slot, during |-> PfmCurrent]),
                          !.posted = @ + 1]
  /\ UNCHANGED <<workerVars, decoderVars, lifeVars>>

\* The event loop of the object's thread runs the next posted slot
PfmDeliver ==
  /\ PfmCanDeliver
  /\ LET e == Head(pfm.queue)
         p == [pfm EXCEPT !.queue = Tail(@)]
     IN IF e.slot = "Start"
        THEN pfm' = [p EXCEPT !.running = TRUE, !.begun = @ + 1, !.progress = 0]
        ELSE pfm' = [PfmCancelBody(p) EXCEPT
               !.lastQueued = [seen |-> TRUE, during |-> e.during, running |-> pfm.running,
                               done |-> pfm.done]]
  /\ UNCHANGED <<workerVars, decoderVars, lifeVars>>

\* Start() reports progress
PfmStartStep ==
  /\ pfm.running
  /\ pfm.progress < MaxProgress
  /\ pfm' = [pfm EXCEPT !.progress = @ + 1]
  /\ UNCHANGED <<workerVars, decoderVars, lifeVars>>

\* Start() returns
PfmStartDone ==
  /\ pfm.running
  /\ pfm.progress = MaxProgress
  /\ pfm' = [pfm EXCEPT !.running = FALSE, !.done = @ + 1]
  /\ UNCHANGED <<workerVars, decoderVars, lifeVars>>

\* Cancel() is invoked through a direct connection: it runs in the caller's thread
PfmCancelDirect ==
  /\ ~pfm.lastDirect.seen
  /\ pfm' = [PfmCancelBody(pfm) EXCEPT
       !.lastDirect = [seen |-> TRUE, during |-> PfmCurrent, progress |-> pfm.progress]]
  /\ UNCHANGED <<workerVars, decoderVars, lifeVars>>

\* One step of worker w inside RenderInternal(path, job_time)
WorkerStep(w) ==
  \/ PN_Track(w)
  \/ GD_Done(w)
  \/ GD_Cancelled(w)
  \/ GD_SkipParam(w)
  \/ GD_Input(w)
  \/ RD_Get(w)
  \/ RD_Open(w)
  \/ RD_Return(w)
  \/ GD_GetState(w)
  \/ GD_Retrieve(w)
  \/ GD_Insert(w)
  \/ PN_Return(w)
  \/ PN_Complete(w)

(***************************************************************************)
(* RenderWorker: Init() and Close()                                        *)
(***************************************************************************)
\* After RenderWorker(): started_(false). calls, inits and closes count the
\* Init()/Close() calls and the InitInternal and CloseInternal runs; last
\* records the most recent call (history): whether the worker was started
\* when it was made, what InitInternal returned, how many times each virtual
\* ran in it, and what it returned.
NotStarted ==
  [started_ |-> FALSE, calls |-> 0, inits |-> 0, closes |-> 0,
   last |-> [op |-> None, wasStarted |-> FALSE, ok |-> FALSE, ranInit |-> 0, ranClose |-> 0,
             ret |-> FALSE]]

\* RenderWorker::IsStarted()
IsStarted == life.started_

\* RenderWorker::Close(): CloseInternal(), started_ = false
CloseBody(started) == [started_ |-> FALSE, ranClose |-> 1]

\* (variant: a failed InitInternal is not followed by Close)
InitBody_NoCloseOnFailure(started, ok) ==
  IF started THEN [started_ |-> TRUE, ranInit |-> 0, ranClose |-> 0, ret |-> TRUE]
  ELSE [started_ |-> ok, ranInit |-> 1, ranClose |-> 0, ret |-> ok]

\* RenderWorker::Init(): true at once when started; else started_ =
\* InitInternal(), Close() when that failed, return started_
InitBody(started, ok) ==
  IF started THEN [started_ |-> TRUE, ranInit |-> 0, ranClose |-> 0, ret |-> TRUE]
  ELSE IF ok THEN [started_ |-> TRUE, ranInit |-> 1, ranClose |-> 0, ret |-> TRUE]
  ELSE LET c == CloseBody(ok)
       IN [started_ |-> c.started_, ranInit |-> 1, ranClose |-> c.ranClose, ret |-> c.started_]

\* Init() is called; ok is what InitInternal returns if it runs
WorkerInit ==
  /\ life.calls < MaxLifeCalls
  /\ \E ok \in BOOLEAN :
       LET r == InitBody(life.started_, ok)
       IN life' = [started_ |-> r.started_, calls |-> life.calls + 1,
                   inits |-> life.inits + r.ranInit, closes |-> life.closes + r.ranClose,
                   last |-> [op |-> "Init", wasStarted |-> life.started_, ok |-> ok,
                             ranInit |-> r.ranInit, ranClose |-> r.ranClose, ret |-> r.ret]]
  /\ UNCHANGED <<workerVars, decoderVars, pfmVars>>

\* Close() is called
WorkerClose ==
  /\ life.calls < MaxLifeCalls
  /\ LET r == CloseBody(life.started_)
     IN life' = [started_ |-> r.started_, calls |-> life.calls + 1,
                 inits |-> life.inits, closes |-> life.closes + r.ranClose,
                 last |-> [op |-> "Close", wasStarted |-> life.started_, ok |-> FALSE,
                           ranInit |-> 0, ranClose |-> r.ranClose, ret |-> FALSE]]
  /\ UNCHANGED <<workerVars, decoderVars, pfmVars>>

Init ==
  /\ stack = [w \in Workers |-> <<>>]
  /\ path = [w \in Workers |-> <<None, <<0, 0>>>>]
  /\ cancelled = [w \in Workers |-> FALSE]
  /\ completed = [w \in Workers |-> <<>>]
  /\ obs = [w \in Workers |-> [sawCancel |-> FALSE, valueOnCancelled |-> FALSE, job_time |-> 0,
                             plain |-> {}, eval |-> NoEval]]
  /\ cache = [s \in Streams |-> 0]
  /\ lockOwner = None
  /\ created = [s \in Streams |-> 0]
  /\ opened = [s \in Streams |-> 0]
  /\ adds = [s \in Streams |-> 0]
  /\ renders = 0
  /\ dec = DecInit
  /\ decRet = DecRetInit
  /\ pfm = PfmInit
  /\ life = NotStarted

Next ==
  \/ \E w \in Workers, node \in Nodes, range \in Ranges : Render(w, node, range)
  \/ \E w \in Workers : PN_Track(w)
  \/ \E w \in Workers : GD_Done(w)
  \/ \E w \in Workers : GD_Cancelled(w)
  \/ \E w \in Workers : GD_SkipParam(w)
  \/ \E w \in Workers : GD_Input(w)
  \/ \E w \in Workers : RD_Get(w)
  \/ \E w \in Workers : RD_Open(w)
  \/ \E w \in Workers : RD_Return(w)
  \/ \E w \in Workers : GD_GetState(w)
  \/ \E w \in Workers : GD_Retrieve(w)
  \/ \E w \in Workers : GD_Insert(w)
  \/ \E w \in Workers : PN_Return(w)
  \/ \E w \in Workers : PN_Complete(w)
  \/ \E w \in Workers : SetCancel(w)
  \/ \E w \in Workers : ClearCancel(w)

Spec == Init /\ [][Next]_vars

\* Every worker runs on a thread of its own, which is scheduled again and
\* again: a step of its evaluation that stays possible is eventually taken.
SpecFair == Spec /\ \A w \in Workers : WF_vars(WorkerStep(w))

NextDecoder ==
  \/ DecOpen
  \/ DecGetRetrieveState
  \/ DecRetrieveVideo
  \/ DecClose

SpecDecoder == Init /\ [][NextDecoder]_vars

NextPfm ==
  \/ PfmPost
  \/ PfmDeliver
  \/ PfmStartStep
  \/ PfmStartDone
  \/ PfmCancelDirect

SpecPfm == Init /\ [][NextPfm]_vars

NextLife ==
  \/ WorkerInit
  \/ WorkerClose

SpecLife == Init /\ [][NextLife]_vars

(***************************************************************************)
(* Properties of the worker                                                *)
(***************************************************************************)
Frames(w) == {stack[w][k] : k \in 1..Len(stack[w])}

StreamOfFrame(f) == FootageStream[f.input]

\* The table ProcessInput returns for unconnected input i of a node evaluated
\* over `range`: one entry, the literal at the start of the adjusted range
LiteralTable(i, range) ==
  <<<<DataType[i],
      IF DataType[i] = "kFootage" THEN FootageStream[i]
      ELSE <<i, range[1] + TimeShift[i]>>>>>>

\* C1: under every interleaving of workers resolving the same stream, at most
\* one decoder is ever opened successfully and added to the cache for it (so
\* with Open succeeding exactly one is created), and every worker that holds a
\* decoder for the stream holds the cached instance.
C1_OneDecoderPerStream ==
  /\ \A s \in Streams :
       /\ opened[s] <= 1
       /\ adds[s] <= 1
       /\ (created[s] = opened[s] => created[s] <= 1)
       /\ (adds[s] = 1 => cache[s] # 0)
  /\ \A w \in Workers : \A f \in Frames(w) :
       (f.pc \in {"state", "retrieve"} \/ (f.pc = "insert" /\ f.decoder # 0))
         => (f.decoder # 0 /\ f.decoder = cache[StreamOfFrame(f)])

\* C1 witness: two workers hold the decoder of the same stream at once, one
\* having created it and the other having found it in the cache.
C1_Witness ==
  \E w1 \in Workers, w2 \in Workers :
    /\ w1 # w2
    /\ At(w1, "state") /\ At(w2, "state")
    /\ StreamOfFrame(Top(w1)) = StreamOfFrame(Top(w2))
    /\ "Open" \in Top(w1).io /\ "Open" \notin Top(w2).io
    /\ Top(w1).decoder = Top(w2).decoder
    /\ created[StreamOfFrame(Top(w1))] = 1

\* Decoder I/O by worker w in this step: CreateFromID/Open, GetRetrieveState
\* or RetrieveVideo.
IOStep(w) ==
  /\ Busy(w)
  /\ Top(w).pc \in {"open", "state", "retrieve"}
  /\ stack'[w] # stack[w]

\* C2 (as claimed): once the cancellation flag is set, at whatever point of the
\* evaluation, the worker issues no further decoder I/O.
C2_NoIOOnceFlagSet == [][\A w \in Workers : cancelled[w] => ~IOStep(w)]_vars

\* C2 (amended): decoder I/O is issued for an input only when the poll at the
\* head of that input's loop iteration read the flag clear; a flag set after
\* that poll does not stop the I/O of the input being resolved.
C2_IOOnlyAfterClearPoll ==
  \A w \in Workers : \A f \in Frames(w) :
    (f.io # {} \/ f.pc \in {"resolve", "open", "opened", "state", "retrieve"})
      => ~f.pollFlag

\* C2 witness: the flag is set in the middle of resolving a footage input whose
\* retrieve state was read, and RetrieveVideo is still to be issued.
C2_Witness ==
  \E w \in Workers :
    cancelled[w] /\ At(w, "retrieve") /\ "GetRetrieveState" \in Top(w).io

\* C3 (as claimed): when cancellation is observed while a node's database is
\* generated, Value() is not called on the database of the cancelled
\* evaluation and the outermost ProcessNode returns an empty table.
C3_CancelReturnsEmptyTable ==
  \A w \in Workers :
    /\ ~obs[w].valueOnCancelled
    /\ (obs[w].sawCancel /\ completed[w] # <<>>) => completed[w][1].table = EmptyTable

\* C4: a decoder whose Open() failed is never added (the cache holds no entry
\* for its stream while the failing resolution holds the lock), the resolution
\* returns no decoder, neither GetRetrieveState nor RetrieveVideo is issued for
\* the input, and the input's table, without a frame value, is inserted into
\* the database that Value() receives.
C4_OpenFailure ==
  /\ \A s \in Streams : adds[s] <= opened[s]
  /\ \A w \in Workers : \A f \in Frames(w) :
       /\ (f.pc = "opened" /\ ~f.openOk) => cache[StreamOfFrame(f)] = 0
       /\ (f.input \in f.failed) =>
            /\ f.pc = "insert"
            /\ f.decoder = 0
            /\ f.io = {"CreateFromID", "Open"}
            /\ f.notes = <<>>
            /\ f.table = LiteralTable(f.input, f.range)
       /\ (f.pc = "value" /\ ~f.cancelObs) =>
            \A i \in f.failed : i \in DOMAIN f.db /\ f.db[i] = LiteralTable(i, f.range)

\* C4 witness: Value() is about to be called on a database generated without
\* cancellation in which an input's decoder failed to open.
C4_Witness ==
  \E w \in Workers : At(w, "value") /\ ~Top(w).cancelObs /\ Top(w).failed # {}

\* C5: for a footage input for which a decoder was obtained, FootageUnavailable
\* is emitted exactly once if and only if the retrieve state at the sub-range's
\* end is not kReady; it carries the stream, that state, the range of the
\* descriptor passed to Render and the sub-range's end; RetrieveVideo is then
\* not called and no frame value is pushed. Nothing is emitted when ready.
C5_FootageUnavailable ==
  \A w \in Workers : \A f \in Frames(w) :
    /\ (f.pc = "insert" /\ f.decoder # 0) =>
         /\ "GetRetrieveState" \in f.io
         /\ f.notes = IF f.state # "kReady"
                      THEN <<[stream |-> StreamOfFrame(f), state |-> f.state,
                              range |-> path[w][2],
                              time |-> f.range[2] + TimeShift[f.input]]>>
                      ELSE <<>>
         /\ f.state # "kReady" =>
              ("RetrieveVideo" \notin f.io /\ f.table = LiteralTable(f.input, f.range))
    /\ ~(f.pc = "insert" /\ f.decoder # 0) => f.notes = <<>>

\* C5 witness: the notification was emitted for an input of a node evaluated
\* below the node passed to Render, over a range other than Render's.
C5_Witness ==
  \E w \in Workers :
    /\ Len(stack[w]) = 2
    /\ At(w, "insert")
    /\ Top(w).notes # <<>>
    /\ Top(w).range # path[w][2]

\* C6: without cancellation the database handed to Value() holds exactly one
\* entry per input parameter of the node and none for other parameters,
\* whatever became of stream resolution, decoder open and retrieval; every
\* entry of an unconnected input holds only that input's own values.
C6_DatabaseEntries ==
  \A w \in Workers : \A f \in Frames(w) :
    /\ DOMAIN f.db \subseteq InputsOf(f.node)
    /\ (f.pc = "value" /\ ~f.cancelObs) => DOMAIN f.db = InputsOf(f.node)
    /\ \A i \in DOMAIN f.db :
         ~IsConnected(i) =>
           \/ f.db[i] = LiteralTable(i, f.range)
           \/ /\ DataType[i] = "kFootage"
              /\ f.db[i] = Append(LiteralTable(i, f.range),
                                  <<"kTexture", <<"frame", FootageStream[i],
                                    <<f.range[1] + TimeShift[i], f.range[2] + TimeShift[i]>>>>>>)

\* C6 witness: Value() is about to be called, without cancellation, for a node
\* with a connected input, an output parameter and a footage input whose
\* decoder failed to open.
C6_Witness ==
  \E w \in Workers :
    /\ At(w, "value") /\ ~Top(w).cancelObs
    /\ Top(w).node = "A"
    /\ "a_foot" \in Top(w).failed

\* C7: once a decoder is cached for a stream, the cache entry is never removed
\* or replaced, no decoder is created, opened or added for that stream again,
\* and every resolution of the stream returns the cached instance.
C7_CachedDecoderKept ==
  [][\A s \in Streams :
       cache[s] # 0 =>
         /\ cache'[s] = cache[s]
         /\ created'[s] = created[s]
         /\ opened'[s] = opened[s]
         /\ adds'[s] = adds[s]
         /\ \A w \in Workers :
              (At(w, "resolve") /\ StreamOfFrame(Top(w)) = s /\ stack'[w] # stack[w])
                => (Top(w)'.pc = "state" /\ Top(w)'.decoder = cache[s])]_vars

\* C7 witness: a worker got the cached decoder of a stream from a resolution
\* that created nothing, after decoders of both streams had been cached.
C7_Witness ==
  \E w \in Workers :
    /\ At(w, "state")
    /\ Top(w).io = {}
    /\ Top(w).decoder = cache[StreamOfFrame(Top(w))]
    /\ \A s \in Streams : cache[s] # 0

C11_FailedOpenRetried ==
  [][/\ \A s \in Streams : opened[s] = 0 => cache[s] = 0
     /\ \A w \in Workers :
          (Busy(w) /\ stack'[w] # stack[w]) =>
            LET f == Top(w)
                s == StreamOfFrame(f)
            IN /\ (f.pc = "resolve" /\ cache[s] = 0) =>
                    (Top(w)'.pc = "open" /\ lockOwner' = w)
               /\ f.pc = "open" =>
                    /\ created'[s] = created[s] + 1
                    /\ Top(w)'.decoder = created'[s]
                    /\ "Open" \in Top(w)'.io
               /\ (f.pc = "opened" /\ f.openOk) =>
                    (cache'[s] = f.decoder /\ Top(w)'.decoder = f.decoder)
               /\ (f.pc = "opened" /\ ~f.openOk) => cache'[s] = 0]_vars

\* C11 witness: after a decoder of a stream failed to open, a later resolution
\* created a second decoder, its Open() succeeded, and it is the cached one.
C11_Witness ==
  \E w \in Workers :
    /\ At(w, "state")
    /\ "Open" \in Top(w).io
    /\ created[StreamOfFrame(Top(w))] = 2
    /\ opened[StreamOfFrame(Top(w))] = 1
    /\ cache[StreamOfFrame(Top(w))] = 2
    /\ Top(w).decoder = 2

\* The inputs among the first k parameters of a node, in declaration order
InputsBefore(node, k) ==
  {Params[node][j] : j \in {i \in 1..Len(Params[node]) : i < k /\ ParamType[Params[node][i]] = "kInput"}}

\* C12: within one node evaluation the inputs are resolved one after the other
\* in parameter declaration order. While input number idx is being resolved
\* the database holds exactly the inputs declared before it, each resolved to
\* the end (sub-graph evaluation, decoder I/O, insert); the evaluation of a
\* connected node runs on top of the awaiting activation, which takes no step
\* meanwhile; and the flag was polled once for every parameter reached, the
\* current one included before any of its resolution.
C12_SequentialInOrder ==
  \A w \in Workers : \A k \in 1..Len(stack[w]) :
    LET f == stack[w][k]
        n == Len(Params[f.node])
    IN /\ f.idx \in 1..(n + 1)
       /\ ~f.cancelObs => DOMAIN f.db = InputsBefore(f.node, f.idx)
       /\ f.pc \notin {"poll", "value"} =>
            /\ f.idx <= n
            /\ f.input = Params[f.node][f.idx]
            /\ f.input \notin DOMAIN f.db
            /\ f.polls = f.idx
            /\ ~f.cancelObs
       /\ f.pc = "poll" => (f.polls = f.idx - 1 /\ f.input = None /\ f.io = {})
       /\ f.pc = "value" =>
            IF f.cancelObs THEN f.polls = f.idx /\ f.db = EmptyDatabase
            ELSE f.idx = n + 1 /\ f.polls = n
       /\ k < Len(stack[w]) =>
            /\ f.pc = "await"
            /\ stack[w][k + 1].node = Connected[f.input]
            /\ f.io = {}
       /\ k = Len(stack[w]) => f.pc # "await"

\* C12 witness: the footage input of A, its third parameter, is being resolved
\* after the connected input a_in was resolved through B and inserted.
C12_Witness ==
  \E w \in Workers :
    /\ At(w, "retrieve")
    /\ Top(w).node = "A"
    /\ Top(w).idx = 3
    /\ Top(w).polls = 3
    /\ DOMAIN Top(w).db = {"a_in"}
    /\ Top(w).db["a_in"] # EmptyTable

\* The range a node's input is resolved over
Adjusted(i, range) == <<range[1] + TimeShift[i], range[2] + TimeShift[i]>>

\* The tables ProcessNode may return for (node, range), written from the
\* definition of the evaluation: the block result of a track; otherwise Value()
\* of a database with one table per input (the literal of an unconnected input,
\* with or without a frame value for footage that holds a stream; a result of
\* the connected node over the adjusted range), or Value() of the empty
\* database of a cancelled evaluation.
RECURSIVE Results(_, _)
Results(node, range) ==
  IF node = "T" THEN {RenderBlock(node, range)}
  ELSE LET ins == InputsOf(node)
           InputTables(i) ==
             IF Connected[i] # None THEN Results(Connected[i], Adjusted(i, range))
             ELSE IF FootageStream[i] # None
                  THEN {LiteralTable(i, range),
                        Append(LiteralTable(i, range),
                               <<"kTexture", <<"frame", FootageStream[i], Adjusted(i, range)>>>>)}
                  ELSE {LiteralTable(i, range)}
           dbs == {db \in [ins -> UNION {InputTables(i) : i \in ins}] :
                     \A i \in ins : db[i] \in InputTables(i)}
       IN {NodeValue(node, db) : db \in dbs} \cup {NodeValue(node, EmptyDatabase)}

\* A bound on the steps an evaluation still takes: per parameter at most eight
\* steps of its own plus the whole evaluation of a connected node, and two
\* steps to leave the loop and return.
RECURSIVE StepsFrom(_, _)
StepsFrom(node, k) ==
  IF k > Len(Params[node]) THEN 2
  ELSE 8 + (IF Connected[Params[node][k]] \notin {None, "T"}
            THEN StepsFrom(Connected[Params[node][k]], 1) ELSE 0)
         + StepsFrom(node, k + 1)

StepsOfFrame(f) ==
  CASE f.pc = "poll" -> StepsFrom(f.node, f.idx)
    [] f.pc = "value" -> 1
    [] f.pc = "await" -> StepsFrom(f.node, f.idx + 1) + 7
    [] f.pc = "resolve" -> StepsFrom(f.node, f.idx + 1) + 6
    [] f.pc = "open" -> StepsFrom(f.node, f.idx + 1) + 5
    [] f.pc = "opened" -> StepsFrom(f.node, f.idx + 1) + 4
    [] f.pc = "state" -> StepsFrom(f.node, f.idx + 1) + 3
    [] f.pc = "retrieve" -> StepsFrom(f.node, f.idx + 1) + 2
    [] f.pc = "insert" -> StepsFrom(f.node, f.idx + 1) + 1

RECURSIVE StepsLeft(_)
StepsLeft(stk) == IF stk = <<>> THEN 0 ELSE StepsOfFrame(Head(stk)) + StepsLeft(Tail(stk))

\* C13: on the (finite, acyclic) graph every step of an evaluation lowers a
\* natural-number bound on the steps left, so ProcessNode terminates; the
\* table resolved for a connected input is the table the evaluation of the
\* connected node over the adjusted range returned, at any depth; and every
\* resolution of a connected input starts a new evaluation of the connected
\* node, whatever was evaluated before (once per path, nothing reused).
C13_RecursionTerminates ==
  [][\A w \in Workers :
       (Busy(w) /\ stack'[w] # stack[w]) =>
         LET f == Top(w)
             depth == Len(stack[w])
         IN /\ StepsLeft(stack'[w]) < StepsLeft(stack[w])
            /\ \A g \in Frames(w) :
                 /\ \A i \in DOMAIN g.db :
                      IsConnected(i) => g.db[i] \in Results(Connected[i], Adjusted(i, g.range))
                 /\ (g.pc = "insert" /\ IsConnected(g.input))
                      => g.table \in Results(Connected[g.input], Adjusted(g.input, g.range))
            /\ (f.pc = "poll" /\ Len(stack'[w]) >= depth) =>
                 LET g == stack'[w][depth]
                 IN (g.input # None /\ Connected[g.input] \notin {None, "T"})
                      => Len(stack'[w]) = depth + 1
            /\ Len(stack'[w]) = depth + 1 =>
                 /\ stack'[w][depth].pc = "await"
                 /\ IsConnected(stack'[w][depth].input)
                 /\ Top(w)' = NewFrame(Connected[stack'[w][depth].input],
                                       Adjusted(stack'[w][depth].input, f.range))
            /\ (depth > 1 /\ Len(stack'[w]) = depth - 1) =>
                 /\ obs'[w].eval.node = Connected[Top(w)'.input]
                 /\ obs'[w].eval.range = Adjusted(Top(w)'.input, Top(w)'.range)
                 /\ Top(w)'.table = obs'[w].eval.out
                 /\ Top(w)'.table = NodeValue(f.node, f.db)]_vars

\* C13 witness: D resolved its first input through an evaluation of E over
\* its own range, and its second input through another evaluation of E, over
\* the range shifted by one.
C13_Witness ==
  \E w \in Workers :
    /\ At(w, "insert")
    /\ Top(w).node = "D"
    /\ Top(w).input = "d_two"
    /\ Top(w).db = [i \in {"d_one"} |-> <<<<"kFloat", <<"e_key", 0>>>>>>]
    /\ Top(w).table = <<<<"kFloat", <<"e_key", 1>>>>>>

\* C14: for a track node ProcessNode returns the RenderBlock result for the
\* requested range and performs none of the plain-node steps for it: a track
\* passed to Render is answered without GenerateDatabase (no poll of the
\* flag), Value() or RunNodeAccelerated; a track connected to an input is
\* resolved to its block result over the adjusted range and never gets an
\* activation of the parameter loop below the first.
C14_TrackNode ==
  \A w \in Workers :
    /\ \A k \in 1..Len(stack[w]) :
         LET f == stack[w][k]
         IN /\ f.node = "T" =>
                 (k = 1 /\ f.pc = "poll" /\ f.polls = 0 /\ f.db = EmptyDatabase
                    /\ obs[w].plain = {} /\ ~obs[w].eval.seen)
            /\ (f.pc = "insert" /\ f.input = "d_trk") =>
                 f.table = <<<<"kTexture", <<"block", "T", Adjusted("d_trk", f.range)>>>>>>
            /\ "d_trk" \in DOMAIN f.db =>
                 f.db["d_trk"] = <<<<"kTexture", <<"block", "T", Adjusted("d_trk", f.range)>>>>>>
    /\ (~Busy(w) /\ completed[w] # <<>> /\ completed[w][1].path[1] = "T") =>
         /\ completed[w][1].table = <<<<"kTexture", <<"block", "T", completed[w][1].path[2]>>>>>>
         /\ obs[w].plain = {}
         /\ ~obs[w].eval.seen
         /\ ~obs[w].sawCancel

\* C14 witness: Render of the track node completed while the cancellation flag
\* was set.
C14_Witness ==
  \E w \in Workers :
    /\ ~Busy(w)
    /\ cancelled[w]
    /\ completed[w] # <<>>
    /\ completed[w][1].path[1] = "T"

\* C15: every evaluation of a node that is not a track calls Value() once and
\* then RunNodeAccelerated once, with the node, the range and the database of
\* the evaluation and the table Value() returned; the hook of RenderWorker
\* leaves the table as it is, so ProcessNode returns Value(database) (the
\* table emitted by Render when the evaluation is the outermost one).
C15_AcceleratedHookOnce ==
  \A w \in Workers :
    LET e == obs[w].eval
    IN /\ e.seen =>
            /\ e.node # "T"
            /\ Len(e.values) = 1
            /\ Len(e.hooks) = 1
            /\ e.values[1][1] = e.node
            /\ e.hooks[1] = <<e.node, e.range, e.values[1][2], NodeValue(e.node, e.values[1][2])>>
            /\ e.out = NodeValue(e.node, e.values[1][2])
            /\ DOMAIN e.values[1][2] \subseteq InputsOf(e.node)
       /\ (~Busy(w) /\ completed[w] # <<>> /\ completed[w][1].path[1] # "T") =>
            /\ e.seen
            /\ <<e.node, e.range>> = completed[w][1].path
            /\ completed[w][1].table = NodeValue(e.node, e.values[1][2])
       /\ \A k \in 1..Len(stack[w]) :
            (stack[w][k].pc = "insert" /\ IsConnected(stack[w][k].input)
               /\ Connected[stack[w][k].input] # "T" /\ k = Len(stack[w]))
              => /\ e.seen
                 /\ e.node = Connected[stack[w][k].input]
                 /\ stack[w][k].table = NodeValue(e.node, e.values[1][2])

\* C15 witness: the evaluation of A returned, through the hook, the table
\* Value() built from a database with its connected input and its footage
\* input, and Render emitted that table.
C15_Witness ==
  \E w \in Workers :
    /\ ~Busy(w)
    /\ completed[w] # <<>>
    /\ obs[w].eval.seen
    /\ obs[w].eval.node = "A"
    /\ DOMAIN obs[w].eval.values[1][2] = {"a_in", "a_foot"}
    /\ Len(completed[w][1].table) >= 3
    /\ completed[w][1].table = obs[w].eval.out

\* C16: every Render(path, job_time) emits CompletedCache exactly once, after
\* the evaluation has returned (nothing is emitted while it runs), with the
\* path and the job_time it was called with, also when the evaluation was
\* cancelled or a decoder failed to open; during the evaluation CurrentPath()
\* is that path.
C16_CompletedOnce ==
  \A w \in Workers :
    /\ Busy(w) =>
         /\ completed[w] = <<>>
         /\ CurrentPath(w) = <<stack[w][1].node, stack[w][1].range>>
         /\ obs[w].job_time \in 1..renders
    /\ (~Busy(w) /\ obs[w].job_time > 0) =>
         /\ Len(completed[w]) = 1
         /\ completed[w][1].path = CurrentPath(w)
         /\ completed[w][1].job_time = obs[w].job_time
    /\ obs[w].job_time = 0 => completed[w] = <<>>
    /\ \A v \in Workers :
         (v # w /\ obs[w].job_time > 0) => obs[v].job_time # obs[w].job_time

\* C16 witness: the second Render issued, of node A, whose evaluation observed
\* cancellation, has emitted its CompletedCache.
C16_Witness ==
  \E w \in Workers :
    /\ ~Busy(w)
    /\ Len(completed[w]) = 1
    /\ obs[w].sawCancel
    /\ obs[w].eval.seen
    /\ completed[w][1].path[1] = "A"
    /\ completed[w][1].job_time = 2

\* The lock of the cache is held exactly between a miss in
\* ResolveDecoderFromInput and its return; the calls that take a decoder's own
\* mutex are made under the lock of the cache (Open) or under no lock
\* (GetRetrieveState, RetrieveVideo); a worker asking for the lock does not
\* hold it; and a worker that cannot step waits for the lock, whose holder can.
LockDiscipline ==
  /\ lockOwner \in Workers \cup {None}
  /\ \A w \in Workers :
       /\ lockOwner = w <=> (At(w, "open") \/ At(w, "opened"))
       /\ Busy(w) =>
            /\ ("Open" \in Top(w).io /\ Top(w).pc = "opened") => lockOwner = w
            /\ Top(w).pc \in {"state", "retrieve", "insert", "resolve", "poll", "value"}
                 => lockOwner # w
       /\ Busy(w) =>
            \/ ENABLED WorkerStep(w)
            \/ /\ At(w, "resolve")
               /\ lockOwner \in Workers \ {w}
               /\ ENABLED WorkerStep(lockOwner)

\* C18: workers cannot deadlock on the locks: the lock discipline above holds
\* in every state, and every worker that requests the lock of the cache
\* eventually obtains it and leaves ResolveDecoderFromInput.
C18_NoDeadlock ==
  /\ []LockDiscipline
  /\ \A w \in Workers : At(w, "resolve") ~> ~At(w, "resolve")

\* C18 witness: a worker waits for the lock of the cache while the other
\* holds it with a decoder whose Open() failed.
C18_Witness ==
  \E w \in Workers, v \in Workers :
    /\ At(w, "resolve")
    /\ lockOwner = v
    /\ v # w
    /\ At(v, "opened")
    /\ ~Top(v).openOk
    /\ ~ENABLED WorkerStep(w)

(***************************************************************************)
(* Properties of Init() and Close()                                        *)
(***************************************************************************)
\* C17: over any sequence of Init() and Close() calls, IsStarted() is true
\* exactly when the most recent call was an Init() that returned true; Init()
\* on a started worker returns true without running InitInternal; Init() whose
\* InitInternal fails runs CloseInternal, returns false and leaves the worker
\* not started; Close() always runs CloseInternal and leaves it not started.
C17_StartedState ==
  LET l == life.last
  IN /\ IsStarted <=> (l.op = "Init" /\ l.ret)
     /\ (l.op = "Init" /\ l.wasStarted) => (l.ret /\ l.ranInit = 0 /\ l.ranClose = 0)
     /\ (l.op = "Init" /\ ~l.wasStarted) => l.ranInit = 1
     /\ (l.op = "Init" /\ ~l.wasStarted /\ l.ok) => (l.ret /\ l.ranClose = 0)
     /\ (l.op = "Init" /\ ~l.wasStarted /\ ~l.ok) => (~l.ret /\ l.ranClose = 1 /\ ~IsStarted)
     /\ l.op = "Close" => (l.ranClose = 1 /\ ~IsStarted)
     /\ life.inits <= life.calls /\ life.closes <= life.calls

\* C17 witness: after an Init() whose InitInternal failed and a second one
\* that started the worker, Init() was called on the started worker.
C17_Witness ==
  /\ life.last.op = "Init"
  /\ life.last.wasStarted
  /\ life.inits = 2
  /\ life.closes = 1
  /\ life.calls = 3
  /\ IsStarted

(***************************************************************************)
(* Properties of the still-image decoder                                   *)
(***************************************************************************)
\* C9 (as claimed): RetrieveVideo(t, d) on an open decoder of native size
\* (W, H) returns a frame of width W div d and height H div d; on a decoder
\* that is not open (never opened, or closed) it returns no frame.
C9_RetrieveVideoSize ==
  decRet.op = "RetrieveVideo" =>
    IF decRet.live
    THEN /\ decRet.kind = "frame"
         /\ decRet.size[1] * decRet.divider <= decRet.native[1]
         /\ decRet.native[1] < (decRet.size[1] + 1) * decRet.divider
         /\ decRet.size[2] * decRet.divider <= decRet.native[2]
         /\ decRet.native[2] < (decRet.size[2] + 1) * decRet.divider
    ELSE decRet.kind = "null"

\* C19 (as claimed): over any sequence of Open, Close, GetRetrieveState and
\* RetrieveVideo, GetRetrieveState returns kReady only while the decoder holds
\* its image handle and its pixel buffer; before a successful Open and after
\* Close it returns kFailedToOpen and RetrieveVideo returns no frame, so no call
\* reads a released buffer.
C19_ReadyOnlyWhileHeld ==
  /\ (decRet.op = "GetRetrieveState" /\ decRet.kind = "kReady") => decRet.held
  /\ (decRet.op = "GetRetrieveState" /\ ~decRet.live) => decRet.kind = "kFailedToOpen"
  /\ (decRet.op = "RetrieveVideo" /\ ~decRet.live) => decRet.kind = "null"
  /\ (decRet.op = "RetrieveVideo" /\ decRet.kind # "null") => decRet.held

====
